---- MODULE Spec2Model ----
(***************************************************************************)
(* Model of ensure_abort_multipart.py: the detector of global              *)
(* abort-incomplete-multipart-upload lifecycle rules, the rule merge       *)
(* (upsert_rule_with_version) and the per-bucket orchestration loop of     *)
(* main() against an S3-like provider.                                     *)
(*                                                                         *)
(* A lifecycle rule is a Python dict; it is modelled as a TLA+ function    *)
(* from the keys it carries to their values, so that "key in rule" is      *)
(* k \in DOMAIN rule, rule.get(k) is Get(rule, k) and dict equality is     *)
(* function equality.  The empty dict {} is <<>>.                          *)
(***************************************************************************)
EXTENDS Integers, Sequences, FiniteSets, TLC

VARIABLES
    \* one call of is_global_abort_rule: its arguments and its result
    dRule, dMax, dRes,
    \* merges of one rule list: the list, the input, arguments and result of
    \* the last merge
    mRules, mIn, mDays, mVer, mChanged, mPhase,
    \* main(): the parsed arguments, the resolved bucket list, the position
    \* in the loop and its locals, the summary
    args, buckets, pc, idx, current_rules, proposed_rules, will_change, summary,
    \* the provider: the lifecycle configuration stored for each bucket
    s3,
    \* what the run did: buckets visited, put calls made, files saved
    visited, putLog, saved,
    \* the buckets a put of this tool has succeeded for, in this run or before
    applied

dvars == <<dRule, dMax, dRes>>
mvars == <<mRules, mIn, mDays, mVer, mChanged, mPhase>>
locals == <<current_rules, proposed_rules, will_change>>
ovars == <<args, buckets, pc, idx, locals, summary, s3, visited, putLog, saved,
           applied>>
vars == <<dvars, mvars, ovars>>

(***************************************************************************)
(* Python values                                                           *)
(***************************************************************************)
\* Python's None, as a value that is no dict of the model
None == [none |-> TRUE]
EmptyDict == <<>>

Has(d, k) == k \in DOMAIN d
\* dict.get(k) == v, for a v that is not None
GetIs(d, k, v) == Has(d, k) /\ d[k] = v
\* dict.get(k) is None: the key is absent, or present with the value None
\* (for a key whose values are dicts or None)
GetIsNone(d, k) == ~Has(d, k) \/ d[k] = None

Range(s) == {s[i] : i \in DOMAIN s}

(***************************************************************************)
(* is_global_abort_rule                                                    *)
(***************************************************************************)
is_global_abort_rule(rule, max_days) ==
    IF ~GetIs(rule, "Status", "Enabled") THEN FALSE
    ELSE IF ~Has(rule, "AbortIncompleteMultipartUpload") THEN FALSE
    ELSE LET abort == rule["AbortIncompleteMultipartUpload"]
         IN  \* .get("DaysAfterInitiation") is None: a day count is an integer
             IF ~Has(abort, "DaysAfterInitiation") THEN FALSE
             ELSE IF abort["DaysAfterInitiation"] > max_days THEN FALSE
             ELSE IF GetIs(rule, "Prefix", "") THEN TRUE
             ELSE IF GetIsNone(rule, "Filter") \/ rule["Filter"] = EmptyDict THEN TRUE
             ELSE IF Has(rule["Filter"], "And") /\ rule["Filter"]["And"] = EmptyDict
                  THEN TRUE
             ELSE FALSE

(***************************************************************************)
(* upsert_rule_with_version                                                *)
(***************************************************************************)
Versions == {"auto", "v1", "v2"}

\* RULE_ID_PREFIX.format(days)
TargetId(days) == "abort-multipart-after-" \o ToString(days) \o "-days"

\* the auto-detection loop: the dialect of the first rule that carries a
\* non-null Filter (v2) or a Prefix key (v1); "None" when the loop ends
\* without a break
RECURSIVE DetectFrom(_, _)
DetectFrom(rules, i) ==
    IF i > Len(rules) THEN "None"
    ELSE IF Has(rules[i], "Filter") /\ rules[i]["Filter"] # None THEN "v2"
    ELSE IF Has(rules[i], "Prefix") THEN "v1"
    ELSE DetectFrom(rules, i + 1)

\* a merge whose auto-detection falls back to the legacy dialect
FinalVersionDefaultV1(rules, lifecycle_version) ==
    IF lifecycle_version = "auto"
    THEN IF DetectFrom(rules, 1) = "None" THEN "v1" ELSE DetectFrom(rules, 1)
    ELSE lifecycle_version

FinalVersion(rules, lifecycle_version) ==
    IF lifecycle_version = "auto"
    THEN IF DetectFrom(rules, 1) = "None" THEN "v2" ELSE DetectFrom(rules, 1)
    ELSE lifecycle_version

NewRule(target_id, days, final_version) ==
    IF final_version = "v1"
    THEN [ID |-> target_id, Status |-> "Enabled", Prefix |-> "",
          AbortIncompleteMultipartUpload |-> [DaysAfterInitiation |-> days]]
    ELSE [ID |-> target_id, Status |-> "Enabled", Filter |-> EmptyDict,
          AbortIncompleteMultipartUpload |-> [DaysAfterInitiation |-> days]]

\* a lookup that never finds the identifier
FirstWithIdNever(rules, target_id) == 0

\* index of the first rule whose ID is target_id, 0 when there is none
FirstWithId(rules, target_id) ==
    IF \E i \in DOMAIN rules : GetIs(rules[i], "ID", target_id)
    THEN CHOOSE i \in DOMAIN rules :
            /\ GetIs(rules[i], "ID", target_id)
            /\ \A j \in 1..(i - 1) : ~GetIs(rules[j], "ID", target_id)
    ELSE 0

\* a merge that writes its rule without looking for a rule that already
\* qualifies, and reports a change whenever it writes
UpsertAlwaysWrites(rules, days, lifecycle_version) ==
    LET new_rule == NewRule(TargetId(days), days, FinalVersion(rules, lifecycle_version))
        i == FirstWithId(rules, TargetId(days))
    IN  IF i # 0
        THEN [rules |-> [rules EXCEPT ![i] = new_rule], changed |-> TRUE]
        ELSE [rules |-> Append(rules, new_rule), changed |-> TRUE]

\* a merge that replaces by removing the old rule and appending the new one
UpsertRemoveAppend(rules, days, lifecycle_version) ==
    LET new_rule == NewRule(TargetId(days), days, FinalVersion(rules, lifecycle_version))
        i == FirstWithId(rules, TargetId(days))
    IN  IF \E k \in DOMAIN rules : is_global_abort_rule(rules[k], days)
        THEN [rules |-> rules, changed |-> FALSE]
        ELSE IF i # 0
        THEN IF rules[i] # new_rule
             THEN [rules |-> Append(SubSeq(rules, 1, i - 1)
                                      \o SubSeq(rules, i + 1, Len(rules)), new_rule),
                   changed |-> TRUE]
             ELSE [rules |-> rules, changed |-> FALSE]
        ELSE [rules |-> Append(rules, new_rule), changed |-> TRUE]

upsert_rule_with_version(rules, days, lifecycle_version) ==
    LET final_version == FinalVersion(rules, lifecycle_version)
        target_id == TargetId(days)
        new_rule == NewRule(target_id, days, final_version)
        i == FirstWithId(rules, target_id)
    IN  IF \E k \in DOMAIN rules : is_global_abort_rule(rules[k], days)
        THEN [rules |-> rules, changed |-> FALSE]
        ELSE IF i # 0
        THEN IF rules[i] # new_rule
             THEN [rules |-> [rules EXCEPT ![i] = new_rule], changed |-> TRUE]
             ELSE [rules |-> rules, changed |-> FALSE]
        ELSE [rules |-> Append(rules, new_rule), changed |-> TRUE]

(***************************************************************************)
(* Inputs: the rules a bucket may carry                                    *)
(***************************************************************************)
\* the day counts given with --days (7 is the default)
DayCounts == {7, 10}

\* a dict with at most the key k, its value drawn from vals
Opt(k, vals) == {EmptyDict} \cup {k :> v : v \in vals}

ScopedFilter == [Prefix |-> "logs/"]
Filters ==
    {None, EmptyDict, [And |-> EmptyDict], [And |-> ScopedFilter],
     ScopedFilter, [Prefix |-> ""]}
Aborts == {EmptyDict} \cup {[DaysAfterInitiation |-> d] : d \in {7, 10, 14}}

\* every combination of the keys the detector reads
DetectRules ==
    {[ID |-> "expire-logs"] @@ s @@ p @@ f @@ a :
        s \in Opt("Status", {"Enabled", "Disabled"}),
        p \in Opt("Prefix", {"", "logs/"}),
        f \in Opt("Filter", Filters),
        a \in Opt("AbortIncompleteMultipartUpload", Aborts)}

\* the rules of the merge's inputs: an identifier (the bucket's own, or one
\* this tool derives from a day count), a scope (no key, a legacy prefix, a
\* filter, or both keys) and a status with an abort action
RuleIds == {"expire-logs"} \cup {TargetId(d) : d \in DayCounts}
Scopes ==
    {EmptyDict, [Prefix |-> ""], [Prefix |-> "logs/"], [Filter |-> EmptyDict],
     [Filter |-> ScopedFilter], [Prefix |-> "", Filter |-> ScopedFilter]}
Gates ==
    {[Status |-> "Disabled",
      AbortIncompleteMultipartUpload |-> [DaysAfterInitiation |-> 7]]}
    \cup {[Status |-> "Enabled",
           AbortIncompleteMultipartUpload |-> [DaysAfterInitiation |-> d]] :
            d \in DayCounts}
RuleBodies == {s @@ g : s \in Scopes, g \in Gates}
MergeRules == {[ID |-> id] @@ b : id \in RuleIds, b \in RuleBodies}

\* the longest rule list a bucket starts with
MaxLen == 2

UniqueIds(rules) ==
    \A i, j \in DOMAIN rules : i # j => rules[i]["ID"] # rules[j]["ID"]

\* the provider keeps the identifiers of a bucket's rules distinct
RuleLists ==
    {rs \in UNION {[1..n -> MergeRules] : n \in 0..MaxLen} : UniqueIds(rs)}

(***************************************************************************)
(* SpecDetect: one call of the detector on any rule                        *)
(***************************************************************************)
MergeIdle ==
    /\ mRules = <<>> /\ mIn = <<>> /\ mDays = 7 /\ mVer = "auto"
    /\ mChanged = FALSE /\ mPhase = "idle"

EmptySummary ==
    [ok |-> <<>>, would_change |-> <<>>, changed |-> <<>>, skipped |-> <<>>,
     errors |-> <<>>]

MainIdle ==
    /\ args = EmptyDict /\ buckets = <<>> /\ pc = "idle" /\ idx = 0
    /\ current_rules = <<>> /\ proposed_rules = <<>> /\ will_change = FALSE
    /\ summary = EmptySummary /\ s3 = EmptyDict
    /\ visited = <<>> /\ putLog = <<>> /\ saved = {} /\ applied = {}

InitDetect ==
    /\ dRule \in DetectRules
    /\ dMax \in DayCounts
    /\ dRes = "pending"
    /\ MergeIdle
    /\ MainIdle

Detect ==
    /\ dRes = "pending"
    /\ dRes' = IF is_global_abort_rule(dRule, dMax) THEN "True" ELSE "False"
    /\ UNCHANGED <<dRule, dMax, mvars, ovars>>

SpecDetect == InitDetect /\ [][Detect]_vars

(***************************************************************************)
(* SpecMerge: merges of a rule list, one after the other                   *)
(***************************************************************************)
DetectIdle == dRule = EmptyDict /\ dMax = 7 /\ dRes = "idle"

InitMerge ==
    /\ mRules \in RuleLists
    /\ mIn = <<>> /\ mDays = 7 /\ mVer = "auto"
    /\ mChanged = FALSE /\ mPhase = "input"
    /\ DetectIdle
    /\ MainIdle

\* upsert_rule_with_version(rules, days, lifecycle_version) on the current list
Merge ==
    \E days \in DayCounts, lifecycle_version \in Versions :
        LET out == upsert_rule_with_version(mRules, days, lifecycle_version)
        IN  /\ mIn' = mRules
            /\ mRules' = out.rules
            /\ mChanged' = out.changed
            /\ mDays' = days
            /\ mVer' = lifecycle_version
            /\ mPhase' = "merged"
            /\ UNCHANGED <<dvars, ovars>>

\* the same merge once more, on the list the last merge returned
MergeAgain ==
    /\ mPhase # "input"
    /\ LET out == upsert_rule_with_version(mRules, mDays, mVer)
       IN  /\ mIn' = mRules
           /\ mRules' = out.rules
           /\ mChanged' = out.changed
           /\ mPhase' = "again"
           /\ UNCHANGED <<mDays, mVer, dvars, ovars>>

SpecMerge == InitMerge /\ [][Merge \/ MergeAgain]_vars

(***************************************************************************)
(* main(): the loop over the resolved buckets, against the provider        *)
(***************************************************************************)
\* the number of bucket names given on the command line
NumBuckets == 2

BucketName(i) == "bucket-" \o ToString(i)

\* load_bucket_list returns distinct names, in the order given; it may be empty
ResolvedLists == {[i \in 1..n |-> BucketName(i)] : n \in 0..NumBuckets}

\* --export-dir: "" when it is not given (None), else the directory
ExportDirs == {"", "out"}

Args ==
    [days : DayCounts, apply : BOOLEAN, lifecycle_version : Versions,
     print_rules : BOOLEAN, print_proposed : BOOLEAN, export_dir : ExportDirs]

\* what a bucket stores when the first run starts: no lifecycle
\* configuration at all, or a configuration of one rule
ScopedLegacyRule ==
    [ID |-> "expire-logs", Status |-> "Disabled", Prefix |-> "logs/",
     AbortIncompleteMultipartUpload |-> [DaysAfterInitiation |-> 7]]
StaleToolRule ==
    [ID |-> TargetId(7), Status |-> "Enabled", Filter |-> ScopedFilter,
     AbortIncompleteMultipartUpload |-> [DaysAfterInitiation |-> 10]]
CompliantRule ==
    [ID |-> "expire-logs", Status |-> "Enabled", Filter |-> EmptyDict,
     AbortIncompleteMultipartUpload |-> [DaysAfterInitiation |-> 7]]
InitialConfigs ==
    {None} \cup {[Rules |-> <<r>>] : r \in {ScopedLegacyRule, StaleToolRule, CompliantRule}}

\* error codes of the provider
LocationOutcomes == {"ok", "NoSuchBucket", "AccessDenied", "InternalError"}

Init ==
    /\ args \in Args
    /\ buckets \in ResolvedLists
    /\ s3 \in [Range(buckets) -> InitialConfigs]
    /\ pc = "load" /\ idx = 0
    /\ current_rules = <<>> /\ proposed_rules = <<>> /\ will_change = FALSE
    /\ summary = EmptySummary
    /\ visited = <<>> /\ putLog = <<>> /\ saved = {} /\ applied = {}
    /\ DetectIdle
    /\ MergeIdle

bucket == buckets[idx]
dry_run == ~args.apply

\* the end of one iteration of "for bucket in buckets", recording the bucket
\* under a category of the summary; the locals are dead until the next
\* iteration assigns them
Record(category, entry) ==
    /\ summary' = [summary EXCEPT ![category] = Append(@, entry)]
    /\ idx' = idx + 1
    /\ pc' = IF idx + 1 > Len(buckets) THEN "summary" ELSE "location"
    /\ current_rules' = <<>> /\ proposed_rules' = <<>> /\ will_change' = FALSE

\* no bucket resolved: an error message and sys.exit(1)
ExitNoBuckets ==
    /\ pc = "load" /\ buckets = <<>>
    /\ pc' = "exit"
    /\ UNCHANGED <<args, buckets, idx, locals, summary, s3, visited, putLog,
                   saved, applied, dvars, mvars>>

StartLoop ==
    /\ pc = "load" /\ buckets # <<>>
    /\ summary' = EmptySummary
    /\ idx' = 1 /\ pc' = "location"
    /\ UNCHANGED <<args, buckets, locals, s3, visited, putLog, saved, applied,
                   dvars, mvars>>

\* an existence check whose other provider errors escape the loop
CheckLocationUncaught ==
    /\ pc = "location"
    /\ visited' = Append(visited, bucket)
    /\ \E code \in LocationOutcomes :
          \/ /\ code = "ok"
             /\ pc' = "lifecycle"
             /\ UNCHANGED <<idx, locals, summary>>
          \/ /\ code \in {"NoSuchBucket", "AccessDenied"}
             /\ Record("skipped", <<bucket, code>>)
          \/ /\ code = "InternalError"
             /\ pc' = "crashed"
             /\ UNCHANGED <<idx, locals, summary>>
    /\ UNCHANGED <<args, buckets, s3, putLog, saved, applied, dvars, mvars>>

\* s3.get_bucket_location(Bucket=bucket)
CheckLocation ==
    /\ pc = "location"
    /\ visited' = Append(visited, bucket)
    /\ \E code \in LocationOutcomes :
          \/ /\ code = "ok"
             /\ pc' = "lifecycle"
             /\ UNCHANGED <<idx, locals, summary>>
          \/ /\ code \in {"NoSuchBucket", "AccessDenied"}
             /\ Record("skipped", <<bucket, code>>)
          \/ /\ code = "InternalError"
             /\ Record("errors", <<bucket, code>>)
    /\ UNCHANGED <<args, buckets, s3, putLog, saved, applied, dvars, mvars>>

\* s3.get_bucket_lifecycle_configuration(Bucket=bucket)
GetLifecycle ==
    /\ pc = "lifecycle"
    /\ \/ /\ current_rules' = IF s3[bucket] = None THEN <<>> ELSE s3[bucket]["Rules"]
          /\ pc' = "merge"
          /\ UNCHANGED <<idx, proposed_rules, will_change, summary>>
       \/ Record("errors", <<bucket, "InternalError">>)
    /\ UNCHANGED <<args, buckets, s3, visited, putLog, saved, applied, dvars, mvars>>

\* upsert_rule_with_version(current_rules[:], args.days, ...)
MergeStep ==
    /\ pc = "merge"
    /\ LET out == upsert_rule_with_version(current_rules, args.days,
                                        args.lifecycle_version)
       IN  /\ proposed_rules' = out.rules
           /\ will_change' = out.changed
    /\ pc' = "output"
    /\ UNCHANGED <<args, buckets, idx, current_rules, summary, s3, visited,
                   putLog, saved, applied, dvars, mvars>>

ExportPath(dir, name, kind) == dir \o "/" \o name \o "." \o kind \o ".json"

\* the save_file calls of the rule output, in order
ExportCurrent ==
    IF args.print_rules /\ args.export_dir # ""
    THEN <<[path |-> ExportPath(args.export_dir, bucket, "current"),
            Rules |-> current_rules]>>
    ELSE <<>>
ExportProposed ==
    IF args.print_proposed /\ args.export_dir # ""
    THEN <<[path |-> ExportPath(args.export_dir, bucket, "proposed"),
            Rules |-> proposed_rules]>>
    ELSE <<>>

\* printing and exporting the rules; a save_file call may raise OSError,
\* which ends the bucket's processing after the files already saved
Output ==
    /\ pc = "output"
    /\ LET calls == ExportCurrent \o ExportProposed
       IN  \E done \in 0..Len(calls) :
             /\ saved' = saved \cup {calls[k] : k \in 1..done}
             /\ IF done = Len(calls)
                THEN /\ pc' = "decide"
                     /\ UNCHANGED <<idx, locals, summary>>
                ELSE Record("errors", <<bucket, "OSError">>)
    /\ UNCHANGED <<args, buckets, s3, visited, putLog, applied, dvars, mvars>>

\* the decision, with the lifecycle write of the apply mode; dry is the
\* dry-run test and rules the rule list handed to the write
DecideWith(dry, rules) ==
    /\ pc = "decide"
    /\ \/ /\ ~will_change
          /\ Record("ok", bucket)
          /\ UNCHANGED <<s3, putLog, applied>>
       \/ /\ will_change /\ dry
          /\ Record("would_change", bucket)
          /\ UNCHANGED <<s3, putLog, applied>>
       \/ /\ will_change /\ ~dry
          /\ putLog' = Append(putLog, [Bucket |-> bucket, Rules |-> rules])
          /\ \/ /\ s3' = [s3 EXCEPT ![bucket] = [Rules |-> rules]]
                /\ applied' = applied \cup {bucket}
                /\ Record("changed", bucket)
             \/ /\ Record("errors", <<bucket, "InternalError">>)
                /\ UNCHANGED <<s3, applied>>
    /\ UNCHANGED <<args, buckets, visited, saved, dvars, mvars>>

\* a decision that writes in a dry-run too
DecideIgnoringDryRun == DecideWith(FALSE, proposed_rules)
\* a decision that writes back the rules it fetched
DecideWritingCurrent == DecideWith(dry_run, current_rules)

Decide == DecideWith(dry_run, proposed_rules)

\* the summary is printed and the process ends
PrintSummary ==
    /\ pc = "summary"
    /\ pc' = "done"
    /\ UNCHANGED <<args, buckets, idx, locals, summary, s3, visited, putLog,
                   saved, applied, dvars, mvars>>

\* the tool is run again on the same buckets, with the same --days and
\* --lifecycle-version; apply and the output options are chosen anew
Rerun ==
    /\ pc = "done"
    /\ \E a \in Args :
          /\ a.days = args.days /\ a.lifecycle_version = args.lifecycle_version
          /\ args' = a
    /\ pc' = "load" /\ idx' = 0
    /\ summary' = EmptySummary
    /\ visited' = <<>> /\ putLog' = <<>> /\ saved' = {}
    /\ UNCHANGED <<buckets, locals, s3, applied, dvars, mvars>>

RunStep ==
    \/ ExitNoBuckets
    \/ StartLoop
    \/ CheckLocation
    \/ GetLifecycle
    \/ MergeStep
    \/ Output
    \/ Decide
    \/ PrintSummary

Next == RunStep \/ Rerun

Spec == Init /\ [][Next]_vars

\* a started run takes its next step: the loop is sequential and every call
\* of it returns or raises
FairSpec == Spec /\ WF_vars(RunStep)

(***************************************************************************)
(* Properties of the detector and of the merge                             *)
(***************************************************************************)
NonEmptyPrefix(rule) == Has(rule, "Prefix") /\ rule["Prefix"] # ""
NonEmptyFilter(rule) ==
    /\ Has(rule, "Filter")
    /\ rule["Filter"] # None
    /\ rule["Filter"] # EmptyDict
    /\ ~(Has(rule["Filter"], "And") /\ rule["Filter"]["And"] = EmptyDict)

\* C1: the detector returns false for every rule that carries a non-empty
\* Prefix or a non-empty Filter, whatever its status and day count.
C1_ScopedNeverDetected ==
    (dRes # "pending" /\ (NonEmptyPrefix(dRule) \/ NonEmptyFilter(dRule)))
        => dRes = "False"

Merged == mPhase # "input"
HasFilter(rule) == Has(rule, "Filter") /\ rule["Filter"] # None
FilterBased(rule) == Has(rule, "Filter") /\ ~Has(rule, "Prefix")
PrefixBased(rule) == GetIs(rule, "Prefix", "") /\ ~Has(rule, "Filter")

\* the rule the last merge appended or put in place of another (when it
\* reported a change)
Written ==
    IF Len(mRules) > Len(mIn) THEN mRules[Len(mRules)]
    ELSE mRules[CHOOSE i \in DOMAIN mRules : mRules[i] # mIn[i]]

\* the first rule of the list that carries a Prefix key or a non-null Filter
\* is a legacy one: it carries no non-null Filter
LegacyFirst(rules) ==
    \E i \in DOMAIN rules :
        /\ Has(rules[i], "Prefix") /\ ~HasFilter(rules[i])
        /\ \A j \in 1..(i - 1) : ~Has(rules[j], "Prefix") /\ ~HasFilter(rules[j])
NoDialect(rules) ==
    \A i \in DOMAIN rules : ~Has(rules[i], "Prefix") /\ ~HasFilter(rules[i])

\* C2 as stated: under 'auto' every rule the merge writes is filter-based,
\* also when the existing rules are legacy prefix-based.
C2_AutoWritesFilterBased ==
    (Merged /\ mVer = "auto" /\ mChanged) => FilterBased(Written)

\* C2 as amended: under 'auto' the rule the merge writes is filter-based,
\* unless the first existing rule that carries a Prefix key or a non-null
\* Filter is a legacy (Prefix-only) rule; then it is prefix-based.
C2_AutoFollowsFirstDialect ==
    (Merged /\ mVer = "auto" /\ mChanged) =>
        IF LegacyFirst(mIn) THEN PrefixBased(Written) ELSE FilterBased(Written)

C2_Witness ==
    /\ Merged /\ mVer = "auto" /\ mChanged
    /\ LegacyFirst(mIn) /\ PrefixBased(Written)
    /\ \E i \in DOMAIN mIn : HasFilter(mIn[i])

\* C3: under 'auto' the merge takes the dialect of the first rule with a
\* non-null Filter (v2) or a Prefix key (v1), and defaults to v1 (Prefix "",
\* no Filter) when no rule carries either key.
C3_AutoDefaultsToV1 ==
    (Merged /\ mVer = "auto" /\ mChanged) =>
        IF LegacyFirst(mIn) \/ NoDialect(mIn)
        THEN PrefixBased(Written) ELSE FilterBased(Written)

\* C4: merging a second time, with the same day count and version, the list
\* the first merge returned reports no change and returns that list.
C4_SecondMergeIsFixedPoint ==
    mPhase = "again" => (~mChanged /\ mRules = mIn)

C4_Witness ==
    /\ mPhase = "again" /\ ~mChanged
    /\ Len(mRules) > MaxLen
    /\ mRules[Len(mRules)]["ID"] = TargetId(mDays)

\* the rule the last merge had to write
TheNewRule == NewRule(TargetId(mDays), mDays, FinalVersion(mIn, mVer))
ReplaceCase(i) ==
    /\ \A k \in DOMAIN mIn : ~is_global_abort_rule(mIn[k], mDays)
    /\ mIn[i]["ID"] = TargetId(mDays)
    /\ mIn[i] # TheNewRule

\* C6: when no rule qualifies and the rule at index i carries the target
\* identifier with another content, the merge reports a change and returns a
\* list of the same length with the new rule at i and every other rule as it
\* was.
C6_ReplacedInPlace ==
    Merged =>
        \A i \in DOMAIN mIn :
            ReplaceCase(i) =>
                /\ mChanged
                /\ Len(mRules) = Len(mIn)
                /\ mRules[i] = TheNewRule
                /\ \A j \in DOMAIN mIn : j # i => mRules[j] = mIn[j]

C6_Witness ==
    /\ Merged /\ Len(mIn) >= 2 /\ ReplaceCase(1)
    /\ mRules[1] = TheNewRule /\ mRules[2] = mIn[2]

\* C7: the list a merge returns has pairwise distinct identifiers and at
\* most one rule with the identifier of each day count, after any sequence of
\* merges.
C7_IdentifiersStayDistinct ==
    /\ UniqueIds(mRules)
    /\ \A d \in DayCounts :
          Cardinality({i \in DOMAIN mRules : mRules[i]["ID"] = TargetId(d)}) <= 1

C7_Witness ==
    /\ Merged /\ mChanged /\ Len(mRules) > MaxLen
    /\ \A d \in DayCounts : \E i \in DOMAIN mRules : mRules[i]["ID"] = TargetId(d)

(***************************************************************************)
(* Properties of the runs                                                  *)
(***************************************************************************)
Count(seq, b) == Cardinality({i \in DOMAIN seq : seq[i] = b})
CountFirst(seq, b) == Cardinality({i \in DOMAIN seq : seq[i][1] = b})

\* the number of times the summary records bucket b
Recorded(b) ==
    Count(summary.ok, b) + Count(summary.would_change, b) + Count(summary.changed, b)
        + CountFirst(summary.skipped, b) + CountFirst(summary.errors, b)

\* C5: a put is called only in apply mode, for the bucket whose merge
\* reported a change, at most once for a bucket in a run; a dry-run makes no
\* put call whatever the provider raises.
C5_WritesOnlyOnApplyAndChange ==
    /\ [](dry_run => putLog = <<>>)
    /\ [](\A i, j \in DOMAIN putLog : i # j => putLog[i].Bucket # putLog[j].Bucket)
    /\ [][(putLog' # putLog /\ putLog' # <<>>) =>
            /\ args.apply /\ pc = "decide" /\ will_change
            /\ putLog' = Append(putLog, [Bucket |-> bucket, Rules |-> proposed_rules])]_vars

C5_Witness ==
    /\ pc = "done" /\ args.apply
    /\ Len(putLog) = 1 /\ Len(summary.ok) = 1 /\ Len(buckets) = 2

\* C8: with a non-empty bucket list the loop ends after visiting every
\* bucket in order, and then every bucket is recorded in exactly one of the
\* five categories, whatever errors the provider raised.
C8_LoopEndsWithPartition ==
    /\ [](pc \in {"summary", "done"} =>
            /\ visited = buckets
            /\ \A k \in DOMAIN buckets : Recorded(buckets[k]) = 1
            /\ Len(summary.ok) + Len(summary.would_change) + Len(summary.changed)
                  + Len(summary.skipped) + Len(summary.errors) = Len(buckets))
    /\ ((pc = "load" /\ buckets # <<>>) ~> (pc = "done"))

C8_Witness ==
    /\ pc = "done" /\ Len(buckets) = 2
    /\ Len(summary.skipped) = 1 /\ Len(summary.errors) = 1

\* C9: with an export directory given, a bucket that passed the merge has
\* both its current and its proposed rules saved, whatever the print flags.
C9_ExportWritesBothFiles ==
    (pc = "decide" /\ args.export_dir # "") =>
        /\ [path |-> ExportPath(args.export_dir, bucket, "current"),
            Rules |-> current_rules] \in saved
        /\ [path |-> ExportPath(args.export_dir, bucket, "proposed"),
            Rules |-> proposed_rules] \in saved

\* C10: once a put of the tool has succeeded for a bucket, a later run with
\* the same day count and version that reaches the decision for it records
\* it as ok and calls no put, and the stored rules of the bucket stay as
\* they are.
C10_AppliedBucketStaysOk ==
    [][/\ (pc = "decide" /\ bucket \in applied) =>
            (summary'.ok = Append(summary.ok, bucket) /\ putLog' = putLog)
       /\ \A b \in applied : s3'[b] = s3[b]]_vars

C10_Witness ==
    /\ pc = "done" /\ args.apply
    /\ \E k \in DOMAIN summary.ok : summary.ok[k] \in applied

====
